---- MODULE Spec2Model ----
(***************************************************************************)
(* CLibSSH2/shim.h: the inline wrappers that expose libssh2's macro-based  *)
(* convenience API to Swift.                                               *)
(*                                                                         *)
(* The shim's functions are modelled one operator each: an operator gives  *)
(* what the function body does, either a return of its own (Return) or a   *)
(* library call whose result it returns (Call).  libssh2 itself is not     *)
(* part of the repository: it is the environment.  Every library call may  *)
(* return any of a small set of results and leave the session's last       *)
(* error and blocked directions in any state.  C values are integers:      *)
(* pointers are addresses, NULL is 0.                                      *)
(***************************************************************************)
EXTENDS Integers, Sequences, FiniteSets, TLC

VARIABLES
    alloc,      \* session addresses libssh2_session_init has handed out
    libState,   \* per session, inside the library: last error, blocked directions
    pend,       \* per session: the earliest call that returned EAGAIN and has not resolved
    hType,      \* per SFTP handle address: "none", or the kind of open that returned it
    lastShim,   \* the last shim call: function, arguments, result, and what it met
    libTrace    \* the library calls made during the last shim call

vars == <<alloc, libState, pend, hType, lastShim, libTrace>>

-----------------------------------------------------------------------------
(* Bounds *)

MaxStrLen == 1      \* longest username / password
MaxHandles == 1     \* SFTP handle addresses per session

-----------------------------------------------------------------------------
(* Constants of the shim *)

NULL == 0

\* The shim sets these three from libssh2.h's LIBSSH2_ERROR_EAGAIN,
\* LIBSSH2_SESSION_BLOCK_INBOUND and LIBSSH2_SESSION_BLOCK_OUTBOUND.
SSH2_ERROR_EAGAIN == -37
SSH2_SESSION_BLOCK_INBOUND == 1
SSH2_SESSION_BLOCK_OUTBOUND == 2

SSH2_METHOD_KEX == 0
SSH2_METHOD_HOSTKEY == 1
SSH2_METHOD_CRYPT_CS == 2
SSH2_METHOD_CRYPT_SC == 3
SSH2_METHOD_MAC_CS == 4
SSH2_METHOD_MAC_SC == 5
SSH2_METHOD_COMP_CS == 6
SSH2_METHOD_COMP_SC == 7

MethodTypes ==
    { SSH2_METHOD_KEX, SSH2_METHOD_HOSTKEY, SSH2_METHOD_CRYPT_CS,
      SSH2_METHOD_CRYPT_SC, SSH2_METHOD_MAC_CS, SSH2_METHOD_MAC_SC,
      SSH2_METHOD_COMP_CS, SSH2_METHOD_COMP_SC }

-----------------------------------------------------------------------------
(* The address space the calls draw their arguments from *)

\* LIBSSH2_SESSION * values.
Sessions == {1}

\* The LIBSSH2_SFTP * of a session (libssh2_sftp_init is not wrapped by the
\* shim; the caller obtains it from the library directly).
SftpOf(s) == 50 + s
SessionOfSftp(sftp) == sftp - 50

\* LIBSSH2_SFTP_HANDLE * values of a session.
HandlesOf(s) == { 10 * s + k : k \in 1..MaxHandles }
Handles == UNION { HandlesOf(s) : s \in Sessions }
SessionOfHandle(h) == h \div 10

\* const char * arguments whose length matters: address 100 + n holds a
\* NUL-terminated string of n characters.
StrPtrs == { 100 + n : n \in 0..MaxStrLen }
Mem(p) == [ i \in 1..(p - 100) |-> "x" ]
strlen(p) == Len(Mem(p))

\* const char * arguments the shim only hands on (paths, descriptions, ...).
Paths == {200, 201}
\* Caller-owned output buffers (attrs, name buffer, seconds_to_next).
OutBuf == {300}

\* (unsigned int) n, n mod 2^32, written in 16-bit halves to stay within
\* TLC's 32-bit integers.
UInt(n) == (n % 65536) + 65536 * ((n \div 65536) % 65536)

-----------------------------------------------------------------------------
(* What a function body does *)

Return(v) == [call |-> FALSE, fn |-> "", args |-> <<>>, ret |-> v]
Call(f, a) == [call |-> TRUE, fn |-> f, args |-> a, ret |-> 0]

-----------------------------------------------------------------------------
(* The shim's functions, one operator each (shim.h, in file order) *)

ssh2_session_init == Call("libssh2_session_init", <<>>)

ssh2_session_disconnect(session, description) ==
    Call("libssh2_session_disconnect", <<session, description>>)

ssh2_session_last_errno(session) ==
    Call("libssh2_session_last_errno", <<session>>)

ssh2_session_block_directions(session) ==
    Call("libssh2_session_block_directions", <<session>>)

ssh2_session_flag(session, flag, value) ==
    Call("libssh2_session_flag", <<session, flag, value>>)

ssh2_session_set_timeout(session, timeout) ==
    Call("libssh2_session_set_timeout", <<session, timeout>>)

ssh2_keepalive_config(session, want_reply, interval) ==
    Call("libssh2_keepalive_config", <<session, want_reply, interval>>)

ssh2_keepalive_send(session, seconds_to_next) ==
    Call("libssh2_keepalive_send", <<session, seconds_to_next>>)

ssh2_session_method_pref(session, method_type, prefs) ==
    Call("libssh2_session_method_pref", <<session, method_type, prefs>>)

ssh2_userauth_publickey_fromfile(session, username, publickey, privatekey, passphrase) ==
    Call("libssh2_userauth_publickey_fromfile",
         <<session, username, publickey, privatekey, passphrase>>)

\* Mutant: the guard joins its two tests with && instead of ||.
ssh2_userauth_password_and(session, username, password) ==
    IF username = NULL /\ password = NULL
    THEN Return(-1)
    ELSE Call("libssh2_userauth_password_ex",
              <<session,
                username, UInt(strlen(username)),
                password, UInt(strlen(password)),
                NULL>>)

ssh2_userauth_password(session, username, password) ==
    IF username = NULL \/ password = NULL
    THEN Return(-1)
    ELSE Call("libssh2_userauth_password_ex",
              <<session,
                username, UInt(strlen(username)),
                password, UInt(strlen(password)),
                NULL>>)

ssh2_sftp_opendir(sftp, path) ==
    Call("libssh2_sftp_opendir", <<sftp, path>>)

ssh2_sftp_close(handle) ==
    Call("libssh2_sftp_close", <<handle>>)

\* Mutant: closedir checks the handle's kind before it reaches the library.
ssh2_sftp_closedir_typed(handle) ==
    IF hType[handle] = "Directory"
    THEN Call("libssh2_sftp_closedir", <<handle>>)
    ELSE Return(-1)

ssh2_sftp_closedir(handle) ==
    Call("libssh2_sftp_closedir", <<handle>>)

ssh2_sftp_readdir(handle, buffer, buffer_maxlen, attrs) ==
    Call("libssh2_sftp_readdir", <<handle, buffer, buffer_maxlen, attrs>>)

ssh2_sftp_stat(sftp, path, attrs) ==
    Call("libssh2_sftp_stat", <<sftp, path, attrs>>)

ssh2_sftp_lstat(sftp, path, attrs) ==
    Call("libssh2_sftp_lstat", <<sftp, path, attrs>>)

ssh2_sftp_setstat(sftp, path, attrs) ==
    Call("libssh2_sftp_setstat", <<sftp, path, attrs>>)

ssh2_sftp_open(sftp, filename, flags, mode) ==
    Call("libssh2_sftp_open", <<sftp, filename, flags, mode>>)

ssh2_sftp_mkdir(sftp, path, mode) ==
    Call("libssh2_sftp_mkdir", <<sftp, path, mode>>)

ssh2_sftp_rmdir(sftp, path) ==
    Call("libssh2_sftp_rmdir", <<sftp, path>>)

ssh2_sftp_unlink(sftp, filename) ==
    Call("libssh2_sftp_unlink", <<sftp, filename>>)

\* Mutant: source and destination are handed on in the wrong order.
ssh2_sftp_rename_swapped(sftp, sourcefile, destfile) ==
    Call("libssh2_sftp_rename", <<sftp, destfile, sourcefile>>)

ssh2_sftp_rename(sftp, sourcefile, destfile) ==
    Call("libssh2_sftp_rename", <<sftp, sourcefile, destfile>>)

ssh2_sftp_readlink(sftp, path, target, maxlen) ==
    Call("libssh2_sftp_readlink", <<sftp, path, target, maxlen>>)

-----------------------------------------------------------------------------
(* The library, as the shim sees it *)

\* What an int-returning library call may return: success, a failure, EAGAIN.
LibInts == {0, -1, SSH2_ERROR_EAGAIN}

\* What a library call may leave behind in the session.
LibStates ==
    { [err |-> 0, block |-> 0],
      [err |-> SSH2_ERROR_EAGAIN, block |-> SSH2_SESSION_BLOCK_INBOUND],
      [err |-> SSH2_ERROR_EAGAIN, block |-> SSH2_SESSION_BLOCK_OUTBOUND] }

FreshState == [err |-> 0, block |-> 0]

\* The address the library gives the next handle of session s, if one is left.
LowestFree(s) ==
    LET free == { h \in HandlesOf(s) : hType[h] = "none" }
    IN  { h \in free : \A g \in free : h <= g }

\* The results a call of the given kind may produce on session s.
Results(kind, s) ==
    CASE kind = "int"    -> LibInts
      [] kind = "void"   -> {0}
      [] kind = "config" -> LibInts
      [] kind = "errno"  -> {libState[s].err}
      [] kind = "block"  -> {libState[s].block}
      [] kind = "handle" -> {NULL} \cup LowestFree(s)

\* The session states the call may leave: the two getters leave it alone.
StatesAfter(kind, s) ==
    IF kind \in {"errno", "block"} THEN {libState[s]} ELSE LibStates

\* The kinds of call that do I/O on the session's transport, and so may be
\* left pending; the getters and the local settings are not among them.
Blocking(kind) == kind \in {"int", "handle"}

\* The call has not completed: it is to be re-invoked.
WouldBlock(kind, r, st) ==
    CASE kind = "int"    -> r = SSH2_ERROR_EAGAIN
      [] kind = "handle" -> r = NULL /\ st.err = SSH2_ERROR_EAGAIN
      [] OTHER           -> FALSE

\* The handle table after library call f(a) returned r.
HandleEffect(f, a, r) ==
    CASE f = "libssh2_sftp_open" /\ r # NULL ->
             [hType EXCEPT ![r] = "File"]
      [] f = "libssh2_sftp_opendir" /\ r # NULL ->
             [hType EXCEPT ![r] = "Directory"]
      [] f \in {"libssh2_sftp_close", "libssh2_sftp_closedir"} /\ r = 0 ->
             [hType EXCEPT ![a[1]] = "none"]
      [] OTHER -> hType

NoOp == <<"", <<>>>>

-----------------------------------------------------------------------------
(* One call of a shim function *)

\* Mutant: a per-session busy flag turns away a call made while another is pending.
ForwardedUnlessBusy(plan, pendOp, op) ==
    plan.call /\ (pendOp = NoOp \/ pendOp = op)

\* Whether the call reaches the library: the body alone decides; the shim
\* keeps no state, so what is pending on the session plays no part.
Forwarded(plan, pendOp, op) == plan.call

\* Function `name` called with `args` on session s; `plan` is its body,
\* `kind` its result type, h the handle among its arguments (or NULL).
Step(name, args, s, plan, kind, h) ==
    LET op   == <<name, args>>
        busy == Blocking(kind) /\ pend[s] # NoOp /\ pend[s] # op
        ht   == IF h = NULL THEN "" ELSE hType[h]
    IN  /\ IF Forwarded(plan, pend[s], op)
           THEN \E r \in Results(kind, s), st \in StatesAfter(kind, s) :
                  /\ libTrace' = <<[fn |-> plan.fn, args |-> plan.args, ret |-> r]>>
                  /\ libState' = [libState EXCEPT ![s] = st]
                  /\ pend' = [pend EXCEPT ![s] =
                                IF busy THEN @
                                ELSE IF WouldBlock(kind, r, st) THEN op ELSE NoOp]
                  /\ hType' = HandleEffect(plan.fn, plan.args, r)
                  /\ lastShim' = [fn |-> name, args |-> args, ret |-> r,
                                  busy |-> busy, htype |-> ht]
           ELSE /\ libTrace' = <<>>
                /\ UNCHANGED <<libState, pend, hType>>
                /\ lastShim' = [fn |-> name, args |-> args, ret |-> plan.ret,
                                busy |-> busy, htype |-> ht]
        /\ UNCHANGED alloc

-----------------------------------------------------------------------------
(* The operations *)

Init ==
    /\ alloc = {}
    /\ libState = [s \in Sessions |-> FreshState]
    /\ pend = [s \in Sessions |-> NoOp]
    /\ hType = [h \in Handles |-> "none"]
    /\ lastShim = [fn |-> "", args |-> <<>>, ret |-> 0, busy |-> FALSE, htype |-> ""]
    /\ libTrace = <<>>

Op_session_init ==
    LET plan == ssh2_session_init
    IN  \E r \in {NULL} \cup (Sessions \ alloc) :
          /\ plan.call
          /\ libTrace' = <<[fn |-> plan.fn, args |-> plan.args, ret |-> r]>>
          /\ alloc' = IF r = NULL THEN alloc ELSE alloc \cup {r}
          /\ libState' = IF r = NULL THEN libState
                         ELSE [libState EXCEPT ![r] = FreshState]
          /\ lastShim' = [fn |-> "ssh2_session_init", args |-> <<>>, ret |-> r,
                          busy |-> FALSE, htype |-> ""]
          /\ UNCHANGED <<pend, hType>>

Op_session_disconnect ==
    \E s \in alloc, d \in {200} :
        Step("ssh2_session_disconnect", <<s, d>>, s,
             ssh2_session_disconnect(s, d), "int", NULL)

Op_session_last_errno ==
    \E s \in alloc :
        Step("ssh2_session_last_errno", <<s>>, s,
             ssh2_session_last_errno(s), "errno", NULL)

Op_session_block_directions ==
    \E s \in alloc :
        Step("ssh2_session_block_directions", <<s>>, s,
             ssh2_session_block_directions(s), "block", NULL)

Op_session_flag ==
    \E s \in alloc, v \in {1} :
        Step("ssh2_session_flag", <<s, 1, v>>, s,
             ssh2_session_flag(s, 1, v), "config", NULL)

Op_session_set_timeout ==
    \E s \in alloc, t \in {30} :
        Step("ssh2_session_set_timeout", <<s, t>>, s,
             ssh2_session_set_timeout(s, t), "void", NULL)

Op_keepalive_config ==
    \E s \in alloc, w \in {1} :
        Step("ssh2_keepalive_config", <<s, w, 5>>, s,
             ssh2_keepalive_config(s, w, 5), "void", NULL)

Op_keepalive_send ==
    \E s \in alloc, b \in OutBuf :
        Step("ssh2_keepalive_send", <<s, b>>, s,
             ssh2_keepalive_send(s, b), "int", NULL)

Op_session_method_pref ==
    \E s \in alloc, m \in MethodTypes, p \in {200} :
        Step("ssh2_session_method_pref", <<s, m, p>>, s,
             ssh2_session_method_pref(s, m, p), "config", NULL)

Op_userauth_publickey_fromfile ==
    \E s \in alloc, u \in {100}, pass \in {NULL, 200} :
        Step("ssh2_userauth_publickey_fromfile", <<s, u, 200, 201, pass>>, s,
             ssh2_userauth_publickey_fromfile(s, u, 200, 201, pass), "int", NULL)

Op_userauth_password ==
    \E s \in alloc, u \in {NULL} \cup StrPtrs, p \in {NULL} \cup StrPtrs :
        Step("ssh2_userauth_password", <<s, u, p>>, s,
             ssh2_userauth_password(s, u, p), "int", NULL)

Op_sftp_opendir ==
    \E s \in alloc, p \in {200} :
        Step("ssh2_sftp_opendir", <<SftpOf(s), p>>, s,
             ssh2_sftp_opendir(SftpOf(s), p), "handle", NULL)

Op_sftp_close ==
    \E h \in Handles :
        /\ SessionOfHandle(h) \in alloc
        /\ hType[h] # "none"
        /\ Step("ssh2_sftp_close", <<h>>, SessionOfHandle(h),
                ssh2_sftp_close(h), "int", h)

Op_sftp_closedir ==
    \E h \in Handles :
        /\ SessionOfHandle(h) \in alloc
        /\ hType[h] # "none"
        /\ Step("ssh2_sftp_closedir", <<h>>, SessionOfHandle(h),
                ssh2_sftp_closedir(h), "int", h)

Op_sftp_readdir ==
    \E h \in Handles, b \in OutBuf :
        /\ SessionOfHandle(h) \in alloc
        /\ hType[h] # "none"
        /\ Step("ssh2_sftp_readdir", <<h, b, 8, b>>, SessionOfHandle(h),
                ssh2_sftp_readdir(h, b, 8, b), "int", h)

Op_sftp_stat ==
    \E s \in alloc, p \in {200}, b \in OutBuf :
        Step("ssh2_sftp_stat", <<SftpOf(s), p, b>>, s,
             ssh2_sftp_stat(SftpOf(s), p, b), "int", NULL)

Op_sftp_lstat ==
    \E s \in alloc, p \in {200}, b \in OutBuf :
        Step("ssh2_sftp_lstat", <<SftpOf(s), p, b>>, s,
             ssh2_sftp_lstat(SftpOf(s), p, b), "int", NULL)

Op_sftp_setstat ==
    \E s \in alloc, p \in {200}, b \in OutBuf :
        Step("ssh2_sftp_setstat", <<SftpOf(s), p, b>>, s,
             ssh2_sftp_setstat(SftpOf(s), p, b), "int", NULL)

Op_sftp_open ==
    \E s \in alloc, p \in {200} :
        Step("ssh2_sftp_open", <<SftpOf(s), p, 1, 0>>, s,
             ssh2_sftp_open(SftpOf(s), p, 1, 0), "handle", NULL)

Op_sftp_mkdir ==
    \E s \in alloc, p \in {200} :
        Step("ssh2_sftp_mkdir", <<SftpOf(s), p, 0>>, s,
             ssh2_sftp_mkdir(SftpOf(s), p, 0), "int", NULL)

Op_sftp_rmdir ==
    \E s \in alloc, p \in {200} :
        Step("ssh2_sftp_rmdir", <<SftpOf(s), p>>, s,
             ssh2_sftp_rmdir(SftpOf(s), p), "int", NULL)

Op_sftp_unlink ==
    \E s \in alloc, p \in {200} :
        Step("ssh2_sftp_unlink", <<SftpOf(s), p>>, s,
             ssh2_sftp_unlink(SftpOf(s), p), "int", NULL)

Op_sftp_rename ==
    \E s \in alloc, p \in Paths, q \in Paths :
        Step("ssh2_sftp_rename", <<SftpOf(s), p, q>>, s,
             ssh2_sftp_rename(SftpOf(s), p, q), "int", NULL)

Op_sftp_readlink ==
    \E s \in alloc, p \in {200}, b \in OutBuf :
        Step("ssh2_sftp_readlink", <<SftpOf(s), p, b, 8>>, s,
             ssh2_sftp_readlink(SftpOf(s), p, b, 8), "int", NULL)

Next ==
    \/ Op_session_init
    \/ Op_session_disconnect
    \/ Op_session_last_errno
    \/ Op_session_block_directions
    \/ Op_session_flag
    \/ Op_session_set_timeout
    \/ Op_keepalive_config
    \/ Op_keepalive_send
    \/ Op_session_method_pref
    \/ Op_userauth_publickey_fromfile
    \/ Op_userauth_password
    \/ Op_sftp_opendir
    \/ Op_sftp_close
    \/ Op_sftp_closedir
    \/ Op_sftp_readdir
    \/ Op_sftp_stat
    \/ Op_sftp_lstat
    \/ Op_sftp_setstat
    \/ Op_sftp_open
    \/ Op_sftp_mkdir
    \/ Op_sftp_rmdir
    \/ Op_sftp_unlink
    \/ Op_sftp_rename
    \/ Op_sftp_readlink

Spec == Init /\ [][Next]_vars

-----------------------------------------------------------------------------
(* Properties *)

\* The call was ssh2_userauth_password with a NULL username or password.
NullPassword(c) ==
    c.fn = "ssh2_userauth_password" /\ (c.args[2] = NULL \/ c.args[3] = NULL)

\* The last shim call made exactly one library call: the library function of
\* the same name, with the shim's own arguments, whose result it returned.
PassedThrough ==
    libTrace = <<[fn |-> "lib" \o lastShim.fn, args |-> lastShim.args,
                  ret |-> lastShim.ret]>>

\* A close of the wrong kind: closedir on a handle that ssh2_sftp_open
\* returned, or close on a handle that ssh2_sftp_opendir returned.
KindMismatch ==
    \/ lastShim.fn = "ssh2_sftp_closedir" /\ lastShim.htype = "File"
    \/ lastShim.fn = "ssh2_sftp_close" /\ lastShim.htype = "Directory"

\* C1, as stated: an operation issued on a Session while an earlier, different
\* operation on it is still pending (returned EAGAIN, not yet resolved) does
\* not begin: it is turned away and never enters the library.
C1_SecondCallRejected ==
    lastShim.busy => libTrace = <<>>

\* C1, amended: the shim keeps no busy flag.  An operation issued while an
\* earlier one on the same Session is still pending is treated as any other
\* call: it enters the library once (unless it is ssh2_userauth_password
\* with a NULL argument) and the caller gets the library's result.
C1_PendingCallForwarded ==
    lastShim.busy =>
        IF NullPassword(lastShim)
        THEN libTrace = <<>>
        ELSE Len(libTrace) = 1 /\ libTrace[1].ret = lastShim.ret

\* C1 witness: ssh2_sftp_stat is pending on the session, ssh2_sftp_unlink is
\* called before it resolves, and the library runs it to success.
C1_Witness ==
    /\ lastShim.busy
    /\ lastShim.fn = "ssh2_sftp_unlink"
    /\ lastShim.ret = 0
    /\ pend[1] = <<"ssh2_sftp_stat", <<SftpOf(1), 200, 300>>>>
    /\ Len(libTrace) = 1

\* C4, as stated: closing is type-checked: closedir on a File handle, or close
\* on a Directory handle, is refused before anything is closed, and the
\* handle stays open.
C4_CloseTypeChecked ==
    KindMismatch =>
        /\ libTrace = <<>>
        /\ hType[lastShim.args[1]] = lastShim.htype

\* C4, amended: the shim does not check the handle's kind.  ssh2_sftp_close
\* and ssh2_sftp_closedir hand any handle, of either kind, to the library's
\* close call of the same name and return its result.
C4_CloseForwardsAnyKind ==
    KindMismatch => PassedThrough

\* C4 witness: closedir on a handle from ssh2_sftp_open reached the library,
\* which reported success, and the handle is gone.
C4_Witness ==
    /\ lastShim.fn = "ssh2_sftp_closedir"
    /\ lastShim.htype = "File"
    /\ lastShim.ret = 0
    /\ libTrace # <<>>
    /\ hType[lastShim.args[1]] = "none"

\* C9, as stated: every function of the shim forwards its arguments unchanged
\* to exactly one library call and returns that call's result unchanged,
\* with no decision of its own.
C9_EveryFunctionPassesThrough ==
    lastShim.fn # "" => PassedThrough

\* C9, amended: every function other than ssh2_userauth_password forwards its
\* arguments unchanged to exactly one library call, the function of the same
\* name, and returns its result unchanged.  ssh2_userauth_password decides by
\* itself whether to call: it makes at most one call, of
\* libssh2_userauth_password_ex, and returns that result when it does.
C9_AllButPasswordPassThrough ==
    /\ lastShim.fn \notin {"", "ssh2_userauth_password"} => PassedThrough
    /\ lastShim.fn = "ssh2_userauth_password" =>
          \/ libTrace = <<>>
          \/ /\ Len(libTrace) = 1
             /\ libTrace[1].fn = "libssh2_userauth_password_ex"
             /\ libTrace[1].ret = lastShim.ret

\* C9 witness: a rename with distinct source and destination that the
\* library left pending.
C9_Witness ==
    /\ lastShim.fn = "ssh2_sftp_rename"
    /\ lastShim.args[2] # lastShim.args[3]
    /\ lastShim.ret = SSH2_ERROR_EAGAIN
    /\ Len(libTrace) = 1

\* C10: ssh2_userauth_password with a NULL username or a NULL password returns
\* -1 without any library call, and the step leaves the session's state, last
\* error and blocked directions as they were; with both non-NULL it makes
\* exactly one call, libssh2_userauth_password_ex(session, username,
\* strlen(username), password, strlen(password), NULL), and returns its result.
C10_PasswordNullGuard ==
    /\ [](lastShim.fn = "ssh2_userauth_password" =>
            IF lastShim.args[2] = NULL \/ lastShim.args[3] = NULL
            THEN lastShim.ret = -1 /\ libTrace = <<>>
            ELSE libTrace =
                   <<[fn   |-> "libssh2_userauth_password_ex",
                      args |-> <<lastShim.args[1],
                                 lastShim.args[2], Len(Mem(lastShim.args[2])),
                                 lastShim.args[3], Len(Mem(lastShim.args[3])),
                                 NULL>>,
                      ret  |-> lastShim.ret]>>)
    /\ [][NullPassword(lastShim') =>
            UNCHANGED <<alloc, libState, pend, hType>>]_vars

\* C10 witness: a call with a NULL username and a one-character password,
\* made while the session's last error is EAGAIN and an operation is pending.
C10_Witness ==
    /\ lastShim.fn = "ssh2_userauth_password"
    /\ lastShim.args = <<1, NULL, 101>>
    /\ lastShim.ret = -1
    /\ libState[1].err = SSH2_ERROR_EAGAIN
    /\ pend[1] # NoOp

====
